---- MODULE Spec2Model ----
(***************************************************************************)
(* Model of src/frontend/grok_integration.py: the Grok3Client, its         *)
(* construction from the environment, and complete(prompt) under the       *)
(* tenacity retry decorator                                                *)
(*   @retry(stop=stop_after_attempt(3),                                    *)
(*          wait=wait_exponential(multiplier=1, min=4, max=10)).           *)
(* A caller is a thread of control that calls complete on the one client;  *)
(* the transport (requests.post and the remote service) is the             *)
(* environment and answers each request with any outcome of Outcomes.      *)
(***************************************************************************)
EXTENDS Integers, Sequences, FiniteSets, TLC

\* Python's None where an Optional[str] is held.
None == "<None>"

-----------------------------------------------------------------------------
(* Bounds of the model and the inputs that are enumerated.                  *)

\* How many times one caller calls complete on the client.
MaxCalls == 2

Callers == {1, 2}

\* The callers that run in the sequential specification.
SeqCallers == {1}

\* The prompt main() sends (line 99).
ExamplePrompt == "Write a function that calculates the Fibonacci sequence."

Prompts == {"x", ExamplePrompt}

-----------------------------------------------------------------------------
(* The environment: os.environ and the .env file load_dotenv reads.         *)

GROK_API_KEY == "GROK_API_KEY"
GROK_API_ENDPOINT == "GROK_API_ENDPOINT"

DefaultEndpoint == "https://api.x.ai/v1/chat/completions"

\* A dict with no entries.
EmptyDict == [k \in {} |-> ""]

\* The dicts over the two variable names with the key drawn from keys and
\* the endpoint drawn from endpoints; either name may be absent.
Dicts(keys, endpoints) ==
    LET vals(n) == IF n = GROK_API_KEY THEN keys ELSE endpoints
    IN  UNION { { f \in [D -> keys \cup endpoints] : \A n \in D : f[n] \in vals(n) }
                : D \in SUBSET {GROK_API_KEY, GROK_API_ENDPOINT} }

ProcessEnvs == Dicts({"", "sk-env"}, {"https://proxy.example/v1"})

DotEnvFiles ==
    { f \in Dicts({"", "sk-file"}, {"https://file.example/v1"}) :
        GROK_API_ENDPOINT \in DOMAIN f =>
            GROK_API_KEY \in DOMAIN f /\ f[GROK_API_KEY] = "sk-file" }

\* load_dotenv() with its default override=False: a variable of the .env
\* file is set only when the process environment does not have it.
load_dotenv(env, file) ==
    [k \in DOMAIN env \cup DOMAIN file |->
        IF k \in DOMAIN env THEN env[k] ELSE file[k]]

\* os.getenv(key, default)
getenv(env, key, default) ==
    IF key \in DOMAIN env THEN env[key] ELSE default

\* A slip that tests `is None` instead of truthiness.
Falsy_none_only(v) == v = None

\* Python truthiness of an Optional[str], negated: `not v`.
Falsy(v) == v = None \/ v = ""

\* self.headers of a constructed client.
Headers(key) ==
    ("Authorization" :> ("Bearer " \o key)) @@
    ("Content-Type" :> "application/json")

-----------------------------------------------------------------------------
(* The request of one attempt.                                              *)

TimeoutSeconds == 120

\* A slip that sends the entry point's example prompt whatever p is.
payload_example_prompt(p) ==
    [model |-> "grok-3",
     messages |-> << [role |-> "user", content |-> ExamplePrompt] >>]

payload(p) ==
    [model |-> "grok-3", messages |-> << [role |-> "user", content |-> p] >>]

\* A slip that posts to the constant URL instead of self.api_endpoint.
Request_default_url(endpoint, hdrs, p) ==
    [method |-> "POST", url |-> DefaultEndpoint, headers |-> hdrs,
     json |-> payload(p), timeout |-> TimeoutSeconds]

Request(endpoint, hdrs, p) ==
    [method |-> "POST", url |-> endpoint, headers |-> hdrs,
     json |-> payload(p), timeout |-> TimeoutSeconds]

-----------------------------------------------------------------------------
(* What the transport can answer: a network error, a timeout, or a final    *)
(* response with a status code and a body text.  requests follows a         *)
(* redirect that names a Location itself, so a 3xx that reaches the client  *)
(* is a final response (300 here); a 1xx response has no body.              *)

BodyStatuses == {200, 201, 300, 404, 500}
NoBodyStatuses == {102}

TextAnswer == "{\"choices\": [{\"message\": {\"content\": \"42\"}}]}"
TextError == "{\"error\": \"overloaded\"}"
TextHtml == "<html>502 Bad Gateway</html>"
TextEmpty == ""

\* Bodies that decode but lack part of the shape main() reads, and one
\* with two choices.
TextNoChoices == TextError
TextEmptyChoices == "{\"choices\": []}"
TextNoMessage == "{\"choices\": [{\"index\": 0}]}"
TextNoContent == "{\"choices\": [{\"message\": {\"role\": \"assistant\"}}]}"
TextTwoChoices ==
    "{\"choices\": [{\"message\": {\"content\": \"42\"}}, {\"message\": {\"content\": \"43\"}}]}"

JsonTexts == {TextAnswer, TextError, TextEmptyChoices, TextNoMessage,
              TextNoContent, TextTwoChoices}

Texts == {TextAnswer, TextError, TextHtml}

TransportErrors == {"ConnectionError", "Timeout"}

Outcomes ==
    { [exc |-> e, status_code |-> 0, text |-> TextEmpty] : e \in TransportErrors }
    \cup
    { [exc |-> None, status_code |-> s, text |-> t] :
        s \in BodyStatuses, t \in Texts }
    \cup
    { [exc |-> None, status_code |-> s, text |-> TextEmpty] :
        s \in NoBodyStatuses }

\* response.raise_for_status(): TRUE iff it raises HTTPError.
raise_for_status(response) ==
    400 <= response.status_code /\ response.status_code < 600

\* response.json(): whether the text decodes, and what it decodes to.
json_decodes(text) == text \in JsonTexts

json(text) ==
    CASE text = TextAnswer ->
           [choices |-> << [message |-> [content |-> "42"]] >>]
      [] text = TextError -> [error |-> "overloaded"]
      [] text = TextEmptyChoices -> [choices |-> << >>]
      [] text = TextNoMessage -> [choices |-> << [index |-> 0] >>]
      [] text = TextNoContent ->
           [choices |-> << [message |-> [role |-> "assistant"]] >>]
      [] text = TextTwoChoices ->
           [choices |-> << [message |-> [content |-> "42"]],
                           [message |-> [content |-> "43"]] >>]

NoValue == [none |-> TRUE]
NoError == [type |-> None]

\* A slip that logs the failure of the exchange and does not raise it
\* again (line 91 left out): the body then returns None.
complete_body_swallows(o, n) ==
    IF o.exc # None \/ raise_for_status(o) \/ ~json_decodes(o.text)
    THEN [raised |-> FALSE, value |-> NoValue, exception |-> NoError]
    ELSE [raised |-> FALSE, value |-> [none |-> FALSE, body |-> json(o.text)],
          exception |-> NoError]

\* A slip that falls back to the raw text when the body does not decode.
complete_body_returns_text(o, n) ==
    IF o.exc # None
    THEN [raised |-> TRUE, value |-> NoValue,
          exception |-> [type |-> o.exc, status_code |-> 0, attempt |-> n]]
    ELSE IF raise_for_status(o)
    THEN [raised |-> TRUE, value |-> NoValue,
          exception |-> [type |-> "HTTPError", status_code |-> o.status_code,
                         attempt |-> n]]
    ELSE IF ~json_decodes(o.text)
    THEN [raised |-> FALSE, value |-> [none |-> FALSE, body |-> o.text],
          exception |-> NoError]
    ELSE [raised |-> FALSE, value |-> [none |-> FALSE, body |-> json(o.text)],
          exception |-> NoError]

\* A slip that wraps the decoded body instead of returning it as it is.
complete_body_wraps(o, n) ==
    IF o.exc # None
    THEN [raised |-> TRUE, value |-> NoValue,
          exception |-> [type |-> o.exc, status_code |-> 0, attempt |-> n]]
    ELSE IF raise_for_status(o)
    THEN [raised |-> TRUE, value |-> NoValue,
          exception |-> [type |-> "HTTPError", status_code |-> o.status_code,
                         attempt |-> n]]
    ELSE IF ~json_decodes(o.text)
    THEN [raised |-> TRUE, value |-> NoValue,
          exception |-> [type |-> "JSONDecodeError",
                         status_code |-> o.status_code, attempt |-> n]]
    ELSE [raised |-> FALSE,
          value |-> [none |-> FALSE, body |-> [data |-> json(o.text)]],
          exception |-> NoError]

\* One execution of the body of complete (lines 55-91) at attempt n, given
\* the transport's outcome: what it raises or returns.
complete_body(o, n) ==
    IF o.exc # None
    THEN [raised |-> TRUE, value |-> NoValue,
          exception |-> [type |-> o.exc, status_code |-> 0, attempt |-> n]]
    ELSE IF raise_for_status(o)
    THEN [raised |-> TRUE, value |-> NoValue,
          exception |-> [type |-> "HTTPError", status_code |-> o.status_code,
                         attempt |-> n]]
    ELSE IF ~json_decodes(o.text)
    THEN [raised |-> TRUE, value |-> NoValue,
          exception |-> [type |-> "JSONDecodeError",
                         status_code |-> o.status_code, attempt |-> n]]
    ELSE [raised |-> FALSE, value |-> [none |-> FALSE, body |-> json(o.text)],
          exception |-> NoError]

-----------------------------------------------------------------------------
(* The retry decorator (lines 38-41).                                       *)

max_attempt_number == 3
multiplier == 1
wait_min == 4
wait_max == 10
exp_base == 2

Max(a, b) == IF a >= b THEN a ELSE b
Min(a, b) == IF a <= b THEN a ELSE b

RECURSIVE Pow(_, _)
Pow(b, e) == IF e <= 0 THEN 1 ELSE b * Pow(b, e - 1)

\* Off-by-one slips in the stop condition.
stop_one_more(attempt_number) == attempt_number > max_attempt_number
stop_one_less(attempt_number) == attempt_number >= max_attempt_number - 1

\* stop_after_attempt(3)
stop(attempt_number) == attempt_number >= max_attempt_number

\* A slip that drops the floor, and one whose exponent runs two ahead.
wait_no_floor(attempt_number) ==
    Min(multiplier * Pow(exp_base, attempt_number - 1), wait_max)
wait_exponent_ahead(attempt_number) ==
    Max(Max(0, wait_min),
        Min(multiplier * Pow(exp_base, attempt_number + 1), wait_max))

\* wait_exponential(multiplier=1, min=4, max=10), after attempt_number
\* attempts have failed: multiplier * exp_base^(attempt_number - 1),
\* clamped to [min, max].
wait(attempt_number) ==
    Max(Max(0, wait_min),
        Min(multiplier * Pow(exp_base, attempt_number - 1), wait_max))

\* A slip that consults stop before looking at the attempt's result.
iter_stop_first(raised, attempt_number) ==
    IF stop(attempt_number) THEN "raise"
    ELSE IF ~raised THEN "return"
    ELSE "sleep"

\* A slip that waits and tries again after a successful attempt too.
iter_wait_on_success(raised, attempt_number) ==
    IF stop(attempt_number)
    THEN (IF raised THEN "raise" ELSE "return")
    ELSE "sleep"

\* tenacity's decision after an attempt: return its result, raise, or
\* sleep and try again.  Without reraise=True the raise is of RetryError.
iter(raised, attempt_number) ==
    IF ~raised THEN "return"
    ELSE IF stop(attempt_number) THEN "raise"
    ELSE "sleep"

RetryError(last) == [type |-> "RetryError", last_attempt |-> last]

-----------------------------------------------------------------------------
(* main() (lines 93-113): what it does with the response of complete.       *)

NoContentMessage == "\nNo response content found"

\* A slip that reads the last choice instead of the first.
main_process_last_choice(response) ==
    IF "choices" \in DOMAIN response /\ Len(response.choices) > 0
    THEN LET last == response.choices[Len(response.choices)]
         IN  IF "message" \notin DOMAIN last
             THEN [raised |-> TRUE, printed |-> None,
                   exception |-> [type |-> "KeyError", key |-> "message"]]
             ELSE IF "content" \notin DOMAIN last.message
             THEN [raised |-> TRUE, printed |-> None,
                   exception |-> [type |-> "KeyError", key |-> "content"]]
             ELSE [raised |-> FALSE, exception |-> NoError,
                   printed |-> "\nGrok3 Response:\n" \o last.message.content]
    ELSE [raised |-> FALSE, exception |-> NoError,
          printed |-> NoContentMessage]

\* Lines 105-109: the line printed, or the KeyError a subscript raises.
main_process(response) ==
    IF "choices" \in DOMAIN response /\ Len(response.choices) > 0
    THEN LET first == response.choices[1]
         IN  IF "message" \notin DOMAIN first
             THEN [raised |-> TRUE, printed |-> None,
                   exception |-> [type |-> "KeyError", key |-> "message"]]
             ELSE IF "content" \notin DOMAIN first.message
             THEN [raised |-> TRUE, printed |-> None,
                   exception |-> [type |-> "KeyError", key |-> "content"]]
             ELSE [raised |-> FALSE, exception |-> NoError,
                   printed |-> "\nGrok3 Response:\n" \o first.message.content]
    ELSE [raised |-> FALSE, exception |-> NoError,
          printed |-> NoContentMessage]

\* The caller that is main(), and what the transport answers it with.
MainCaller == 1

MainOutcomes ==
    { [exc |-> "ConnectionError", status_code |-> 0, text |-> TextEmpty],
      [exc |-> None, status_code |-> 500, text |-> TextError] }
    \cup
    { [exc |-> None, status_code |-> 200, text |-> t] :
        t \in JsonTexts \cup {TextHtml} }

-----------------------------------------------------------------------------
VARIABLES
    environ,         \* os.environ
    dotenv,          \* the contents of the .env file
    constructed,     \* "no", "ok", or "ValueError": Grok3Client()
    api_key,         \* self.api_key
    api_endpoint,    \* self.api_endpoint
    headers,         \* self.headers
    pc,              \* per caller: where its complete call is
    calls,           \* per caller: how many calls it has started
    prompt,          \* per caller: the argument of its call
    attempt_number,  \* per caller: retry_state.attempt_number
    upcoming_sleep,  \* per caller: retry_state.upcoming_sleep
    sent,            \* per caller: the requests its call has posted
    slept,           \* per caller: the waits its call has slept
    attempts,        \* per caller: outcome and result of each attempt
    result,          \* per caller: what its call returned
    error,           \* per caller: what its call raised
    mainpc,          \* where main() is
    stdout,          \* the lines main() has printed
    logged,          \* the exceptions main() has logged (line 112)
    main_exc         \* the exception main() holds in its except clause

envVars == <<environ, dotenv>>
clientVars == <<constructed, api_key, api_endpoint, headers>>
callVars == <<pc, calls, prompt, attempt_number, upcoming_sleep, sent, slept,
              attempts, result, error>>
mainVars == <<mainpc, stdout, logged, main_exc>>
vars == <<envVars, clientVars, callVars, mainVars>>

Init ==
    /\ environ \in ProcessEnvs
    /\ dotenv \in DotEnvFiles
    /\ constructed = "no"
    /\ api_key = None
    /\ api_endpoint = None
    /\ headers = EmptyDict
    /\ pc = [c \in Callers |-> "idle"]
    /\ calls = [c \in Callers |-> 0]
    /\ prompt = [c \in Callers |-> None]
    /\ attempt_number = [c \in Callers |-> 0]
    /\ upcoming_sleep = [c \in Callers |-> 0]
    /\ sent = [c \in Callers |-> <<>>]
    /\ slept = [c \in Callers |-> <<>>]
    /\ attempts = [c \in Callers |-> <<>>]
    /\ result = [c \in Callers |-> NoValue]
    /\ error = [c \in Callers |-> NoError]
    /\ mainpc = "start"
    /\ stdout = <<>>
    /\ logged = <<>>
    /\ main_exc = NoError

\* Grok3Client.__init__ (lines 17-36)
Construct ==
    /\ constructed = "no"
    /\ LET env == load_dotenv(environ, dotenv)
           key == getenv(env, GROK_API_KEY, None)
       IN  /\ environ' = env
           /\ api_key' = key
           /\ api_endpoint' = getenv(env, GROK_API_ENDPOINT, DefaultEndpoint)
           /\ IF Falsy(key)
              THEN /\ constructed' = "ValueError"
                   /\ headers' = headers
              ELSE /\ constructed' = "ok"
                   /\ headers' = Headers(key)
    /\ UNCHANGED <<dotenv, callVars>>

\* A caller calls complete(p): tenacity starts its retry state at attempt 1.
Call(c, p) ==
    /\ constructed = "ok"
    /\ pc[c] \in {"idle", "returned", "raised"}
    /\ calls[c] < MaxCalls
    /\ calls' = [calls EXCEPT ![c] = @ + 1]
    /\ pc' = [pc EXCEPT ![c] = "attempt"]
    /\ prompt' = [prompt EXCEPT ![c] = p]
    /\ attempt_number' = [attempt_number EXCEPT ![c] = 1]
    /\ upcoming_sleep' = [upcoming_sleep EXCEPT ![c] = 0]
    /\ sent' = [sent EXCEPT ![c] = <<>>]
    /\ slept' = [slept EXCEPT ![c] = <<>>]
    /\ attempts' = [attempts EXCEPT ![c] = <<>>]
    /\ result' = [result EXCEPT ![c] = NoValue]
    /\ error' = [error EXCEPT ![c] = NoError]
    /\ UNCHANGED <<envVars, clientVars>>

\* A slip that takes the Authorization header out of the shared dict.
Post_mutates_headers(c) ==
    /\ pc[c] = "attempt"
    /\ sent' = [sent EXCEPT ![c] =
                  Append(@, Request(api_endpoint, headers, prompt[c]))]
    /\ pc' = [pc EXCEPT ![c] = "inflight"]
    /\ headers' = ("Content-Type" :> "application/json")
    /\ UNCHANGED <<envVars, constructed, api_key, api_endpoint, calls,
                   prompt, attempt_number, upcoming_sleep, slept, attempts,
                   result, error>>

\* The body of complete up to requests.post (lines 55-74): one request.
Post(c) ==
    /\ pc[c] = "attempt"
    /\ sent' = [sent EXCEPT ![c] =
                  Append(@, Request(api_endpoint, headers, prompt[c]))]
    /\ pc' = [pc EXCEPT ![c] = "inflight"]
    /\ UNCHANGED <<envVars, clientVars, calls, prompt, attempt_number,
                   upcoming_sleep, slept, attempts, result, error>>

\* The transport answers with outcome o; the body of complete finishes
\* (lines 76-91) and tenacity decides what follows.
Respond(c, o) ==
    /\ pc[c] = "inflight"
    /\ LET r == complete_body(o, attempt_number[c])
           do == iter(r.raised, attempt_number[c])
       IN  /\ attempts' = [attempts EXCEPT ![c] =
                             Append(@, [outcome |-> o, raised |-> r.raised,
                                        value |-> r.value,
                                        exception |-> r.exception])]
           /\ pc' = [pc EXCEPT ![c] =
                       CASE do = "return" -> "returned"
                         [] do = "raise" -> "raised"
                         [] do = "sleep" -> "sleep"]
           /\ result' = [result EXCEPT ![c] =
                           IF do = "return" THEN r.value ELSE @]
           /\ error' = [error EXCEPT ![c] =
                          IF do = "raise" THEN RetryError(r.exception) ELSE @]
           /\ upcoming_sleep' = [upcoming_sleep EXCEPT ![c] =
                                   IF do = "sleep"
                                   THEN wait(attempt_number[c]) ELSE @]
    /\ UNCHANGED <<envVars, clientVars, calls, prompt, attempt_number, sent,
                   slept>>

\* A slip that keeps one attempt counter for all the calls in progress.
Sleep_shared_attempt_number(c) ==
    /\ pc[c] = "sleep"
    /\ attempt_number' = [d \in Callers |->
                            IF pc[d] \in {"attempt", "inflight", "sleep"}
                            THEN attempt_number[d] + 1
                            ELSE attempt_number[d]]
    /\ slept' = [slept EXCEPT ![c] = Append(@, upcoming_sleep[c])]
    /\ pc' = [pc EXCEPT ![c] = "attempt"]
    /\ UNCHANGED <<envVars, clientVars, calls, prompt, upcoming_sleep, sent,
                   attempts, result, error>>

\* tenacity's DoSleep: the next attempt is prepared and the wait is slept.
Sleep(c) ==
    /\ pc[c] = "sleep"
    /\ attempt_number' = [attempt_number EXCEPT ![c] = @ + 1]
    /\ slept' = [slept EXCEPT ![c] = Append(@, upcoming_sleep[c])]
    /\ pc' = [pc EXCEPT ![c] = "attempt"]
    /\ UNCHANGED <<envVars, clientVars, calls, prompt, upcoming_sleep, sent,
                   attempts, result, error>>

\* The client used as a library by one caller: main() does not run.
Next ==
    \/ Construct /\ UNCHANGED mainVars
    \/ \E c \in SeqCallers, p \in Prompts : Call(c, p) /\ UNCHANGED mainVars
    \/ \E c \in SeqCallers : Post(c) /\ UNCHANGED mainVars
    \/ \E c \in SeqCallers, o \in Outcomes :
          Respond(c, o) /\ UNCHANGED mainVars
    \/ \E c \in SeqCallers : Sleep(c) /\ UNCHANGED mainVars

Spec == Init /\ [][Next]_vars

\* The same, with what the code's blocking, single-threaded execution
\* gives: a call that can post does, an attempt in flight is answered (at
\* the latest by its 120-second timeout), and a wait that is slept ends.
Fairness ==
    \A c \in SeqCallers :
        /\ WF_vars(Post(c) /\ UNCHANGED mainVars)
        /\ WF_vars((\E o \in Outcomes : Respond(c, o)) /\ UNCHANGED mainVars)
        /\ WF_vars(Sleep(c) /\ UNCHANGED mainVars)

LiveSpec == Init /\ [][Next]_vars /\ Fairness

-----------------------------------------------------------------------------
(* Two callers that call complete on the same client concurrently: their   *)
(* steps interleave in every order.                                         *)

ConcOutcomes ==
    { [exc |-> None, status_code |-> 200, text |-> TextAnswer],
      [exc |-> None, status_code |-> 500, text |-> TextError],
      [exc |-> "Timeout", status_code |-> 0, text |-> TextEmpty] }

ConcNext ==
    \/ Construct /\ UNCHANGED mainVars
    \/ \E c \in Callers, p \in Prompts : Call(c, p) /\ UNCHANGED mainVars
    \/ \E c \in Callers : Post(c) /\ UNCHANGED mainVars
    \/ \E c \in Callers, o \in ConcOutcomes :
          Respond(c, o) /\ UNCHANGED mainVars
    \/ \E c \in Callers : Sleep(c) /\ UNCHANGED mainVars

ConcSpec == Init /\ [][ConcNext]_vars

-----------------------------------------------------------------------------
(* The command-line entry point, main() (lines 93-113).                     *)

\* Line 96: grok = Grok3Client(); a ValueError goes to the except clause.
MainConstruct ==
    /\ mainpc = "start"
    /\ Construct
    /\ mainpc' = IF constructed' = "ok" THEN "call" ELSE "except"
    /\ main_exc' = IF constructed' = "ok" THEN main_exc
                   ELSE [type |-> "ValueError"]
    /\ UNCHANGED <<stdout, logged>>

\* Line 102: response = grok.complete(prompt)
MainCall ==
    /\ mainpc = "call"
    /\ Call(MainCaller, ExamplePrompt)
    /\ mainpc' = "complete"
    /\ UNCHANGED <<stdout, logged, main_exc>>

MainPost ==
    mainpc = "complete" /\ Post(MainCaller) /\ UNCHANGED mainVars

MainRespond ==
    /\ mainpc = "complete"
    /\ \E o \in MainOutcomes : Respond(MainCaller, o)
    /\ UNCHANGED mainVars

MainSleep ==
    mainpc = "complete" /\ Sleep(MainCaller) /\ UNCHANGED mainVars

\* Lines 104-109: complete returned; the response is processed.
MainProcess ==
    /\ mainpc = "complete"
    /\ pc[MainCaller] = "returned"
    /\ LET out == main_process(result[MainCaller].body)
       IN  IF out.raised
           THEN /\ mainpc' = "except"
                /\ main_exc' = out.exception
                /\ stdout' = stdout
           ELSE /\ mainpc' = "done"
                /\ main_exc' = main_exc
                /\ stdout' = Append(stdout, out.printed)
    /\ UNCHANGED <<envVars, clientVars, callVars, logged>>

\* complete raised: the exception reaches main's except clause.
MainCatch ==
    /\ mainpc = "complete"
    /\ pc[MainCaller] = "raised"
    /\ mainpc' = "except"
    /\ main_exc' = error[MainCaller]
    /\ UNCHANGED <<envVars, clientVars, callVars, stdout, logged>>

\* A slip that logs the failure and does not raise it again.
MainExcept_swallows ==
    /\ mainpc = "except"
    /\ logged' = Append(logged, main_exc)
    /\ mainpc' = "done"
    /\ UNCHANGED <<envVars, clientVars, callVars, stdout, main_exc>>

\* Lines 111-113: the failure is logged and raised again, which ends the
\* process with a traceback and a non-zero status.
MainExcept ==
    /\ mainpc = "except"
    /\ logged' = Append(logged, main_exc)
    /\ mainpc' = "failed"
    /\ UNCHANGED <<envVars, clientVars, callVars, stdout, main_exc>>

MainNext ==
    \/ MainConstruct
    \/ MainCall
    \/ MainPost
    \/ MainRespond
    \/ MainSleep
    \/ MainProcess
    \/ MainCatch
    \/ MainExcept

MainSpec == Init /\ [][MainNext]_vars

-----------------------------------------------------------------------------
(* The claims.  An attempt of a call "failed" when the body of complete     *)
(* raised in it; attempts[c] holds one entry per finished attempt of the    *)
(* caller's current call, sent[c] the requests of that call.                *)

Finished(c) == pc[c] \in {"returned", "raised"}

\* The first k attempts of c's call failed and attempt k+1 succeeded.
FailedThenSucceeded(c, k) ==
    /\ Len(attempts[c]) = k + 1
    /\ \A i \in 1..k : attempts[c][i].raised
    /\ ~attempts[c][k + 1].raised

\* Three attempts of c's call have finished and every one failed.
AllThreeFailed(c) ==
    /\ Len(attempts[c]) = 3
    /\ \A i \in 1..3 : attempts[c][i].raised

\* C1: a complete call sends at most 3 requests, one per attempt: the
\* requests sent so far are as many as the attempts begun (the attempt
\* about to post has not sent its request yet), and never more than 3.
C1_AtMostThreeRequests ==
    \A c \in Callers :
        /\ Len(sent[c]) <= 3
        /\ Len(sent[c]) =
             IF pc[c] = "attempt" THEN attempt_number[c] - 1
             ELSE attempt_number[c]
        /\ Len(attempts[c]) =
             IF pc[c] = "inflight" THEN Len(sent[c]) - 1 ELSE Len(sent[c])

C1_Witness ==
    \E c \in Callers : Finished(c) /\ Len(sent[c]) = 3

\* C2: when the first k attempts (k = 0, 1, 2) fail and attempt k+1
\* succeeds, the call has returned a value, no error is surfaced, and
\* exactly k+1 requests have been sent (so none after the successful one).
C2_SucceedsAfterKFailures ==
    \A c \in Callers : \A k \in 0..2 :
        FailedThenSucceeded(c, k) =>
            /\ pc[c] = "returned"
            /\ result[c] = attempts[c][k + 1].value
            /\ result[c] # NoValue
            /\ error[c] = NoError
            /\ Len(sent[c]) = k + 1

C2_Witness ==
    \E c \in Callers : FailedThenSucceeded(c, 2) /\ Len(sent[c]) = 3

\* C3: when all 3 attempts fail the call raises and returns no value,
\* after exactly 3 requests; and a call raises in no other case.
C3_RaisesAfterThreeFailures ==
    \A c \in Callers :
        /\ AllThreeFailed(c) =>
              /\ pc[c] = "raised"
              /\ error[c] # NoError
              /\ result[c] = NoValue
              /\ Len(sent[c]) = 3
        /\ pc[c] = "raised" => AllThreeFailed(c)

C3_Witness ==
    \E c \in Callers : AllThreeFailed(c) /\ pc[c] = "raised"

\* C4: after 3 failed attempts the error the caller receives is the error
\* the third attempt raised, itself: not another kind of error wrapping it.
C4_LastErrorUnwrapped ==
    \A c \in Callers :
        pc[c] = "raised" => error[c] = attempts[c][Len(attempts[c])].exception

\* C5 (as claimed): the wait before the 2nd attempt is 4 seconds and the
\* wait before the 3rd attempt is twice that, 8 seconds.
C5_WaitDoubles ==
    \A c \in Callers :
        /\ Len(slept[c]) >= 1 => slept[c][1] = 4
        /\ Len(slept[c]) >= 2 =>
              /\ slept[c][2] = 2 * slept[c][1]
              /\ slept[c][2] = 8

\* C5 (amended): the wait before the 2nd attempt is 4 seconds and the wait
\* before the 3rd attempt is 4 seconds too: the exponential term (1 s, then
\* 2 s) lies under the 4-second floor for both waits of a call.
C5_WaitsAreFourSeconds ==
    \A c \in Callers :
        /\ Len(slept[c]) <= 2
        /\ \A i \in 1..Len(slept[c]) : slept[c][i] = 4
        /\ pc[c] = "sleep" => upcoming_sleep[c] = 4

C5_Witness ==
    \E c \in Callers : Len(slept[c]) = 2 /\ pc[c] = "inflight"

\* C6: every wait slept between two attempts of a call is at least 4 and
\* at most 10 seconds.
C6_WaitWithinBounds ==
    \A c \in Callers : \A i \in 1..Len(slept[c]) :
        4 <= slept[c][i] /\ slept[c][i] <= 10

C6_Witness ==
    \E c \in Callers : Len(slept[c]) = 2 /\ Finished(c)

\* C7: an attempt answered with a status outside 200-299, or with a
\* network error or timeout, is a failed attempt (it raises and is retried
\* under the retry policy), and complete never returns the body of a
\* non-2xx response.
C7_Non2xxIsFailedAttempt ==
    \A c \in Callers : \A i \in 1..Len(attempts[c]) :
        LET o == attempts[c][i].outcome
        IN  (o.exc # None \/ o.status_code \notin 200..299) =>
                /\ attempts[c][i].raised
                /\ ~(i = Len(attempts[c]) /\ pc[c] = "returned")

\* C8: when GROK_API_KEY, as os.getenv reads it, is absent or empty,
\* construction fails with the configuration error whatever
\* GROK_API_ENDPOINT is, and no call is started and no request sent.
C8_NoCredentialFailsConstruction ==
    (/\ constructed # "no"
     /\ \/ GROK_API_KEY \notin DOMAIN environ
        \/ environ[GROK_API_KEY] = "")
    => /\ constructed = "ValueError"
       /\ \A c \in Callers :
            pc[c] = "idle" /\ calls[c] = 0 /\ sent[c] = <<>>

C8_Witness ==
    /\ constructed = "ValueError"
    /\ GROK_API_KEY \in DOMAIN environ
    /\ environ[GROK_API_KEY] = ""
    /\ GROK_API_ENDPOINT \in DOMAIN environ

\* C9: with a non-empty credential the endpoint is the constant URL when
\* GROK_API_ENDPOINT is not supplied and the supplied value otherwise, and
\* every request of every call is a POST to that endpoint.
C9_EndpointDefaultOrOverride ==
    constructed = "ok" =>
        /\ api_endpoint =
             IF GROK_API_ENDPOINT \in DOMAIN environ
             THEN environ[GROK_API_ENDPOINT]
             ELSE "https://api.x.ai/v1/chat/completions"
        /\ \A c \in Callers : \A i \in 1..Len(sent[c]) :
             sent[c][i].method = "POST" /\ sent[c][i].url = api_endpoint

C9_Witness ==
    /\ constructed = "ok"
    /\ GROK_API_ENDPOINT \in DOMAIN environ
    /\ \E c \in Callers :
         Len(sent[c]) >= 2 /\ sent[c][2].url = environ[GROK_API_ENDPOINT]

\* C10: every request of complete(p), the first and each retry, carries
\* the body {model: "grok-3", messages: [{role: "user", content: p}]} and
\* the headers Authorization = "Bearer " + apiKey and Content-Type =
\* application/json.
C10_SameBodyAndHeaders ==
    \A c \in Callers : \A i \in 1..Len(sent[c]) :
        /\ sent[c][i].json.model = "grok-3"
        /\ Len(sent[c][i].json.messages) = 1
        /\ sent[c][i].json.messages[1] =
             [role |-> "user", content |-> prompt[c]]
        /\ DOMAIN sent[c][i].headers = {"Authorization", "Content-Type"}
        /\ sent[c][i].headers["Authorization"] = "Bearer " \o api_key
        /\ sent[c][i].headers["Content-Type"] = "application/json"

C10_Witness ==
    \E c \in Callers :
        Len(sent[c]) = 3 /\ prompt[c] = "x" /\ sent[c][3].json = payload("x")

-----------------------------------------------------------------------------
(* Claims about main(), checked under MainSpec.                             *)

MainEnded == mainpc \in {"done", "failed"}

\* The decoded body b has a first choice with message.content.
HasContent(b) ==
    /\ "choices" \in DOMAIN b
    /\ Len(b.choices) > 0
    /\ "message" \in DOMAIN b.choices[1]
    /\ "content" \in DOMAIN b.choices[1].message

\* C11: whatever decoded body complete returns, with or without the
\* expected fields, main() ends by printing the content or the "no content
\* found" line, and never holds a key or index error.
C11_MalformedBodyDegrades ==
    pc[MainCaller] = "returned" =>
        /\ main_exc = NoError
        /\ mainpc \in {"complete", "done"}
        /\ mainpc = "done" => Len(stdout) = 1

\* C12: when complete returns a body whose first choice has
\* message.content = c, main() prints c, taken from the first choice (under
\* the "Grok3 Response:" heading of line 107) and does not print the "no
\* content found" line.
C12_PrintsFirstChoiceContent ==
    (/\ pc[MainCaller] = "returned"
     /\ mainpc \notin {"start", "call", "complete"}
     /\ HasContent(result[MainCaller].body))
    => /\ mainpc = "done"
       /\ stdout = << "\nGrok3 Response:\n"
                        \o result[MainCaller].body.choices[1].message.content >>
       /\ stdout # << NoContentMessage >>

C12_Witness ==
    /\ mainpc = "done"
    /\ pc[MainCaller] = "returned"
    /\ HasContent(result[MainCaller].body)
    /\ Len(result[MainCaller].body.choices) = 2
    /\ stdout = << "\nGrok3 Response:\n42" >>

\* C13: after a failure in main() (the configuration error of the
\* constructor, complete raising after its attempts, or an error while the
\* response is processed) the run never ends normally and nothing is
\* printed; when it has ended, the failure was logged once and raised again.
C13_FailureIsLoggedAndReraised ==
    (\/ constructed = "ValueError"
     \/ pc[MainCaller] = "raised"
     \/ main_exc # NoError)
    => /\ mainpc \in {"complete", "except", "failed"}
       /\ stdout = <<>>
       /\ mainpc = "except" => logged = <<>>
       /\ mainpc = "failed" => logged = << main_exc >> /\ main_exc # NoError
       /\ constructed = "ValueError" =>
            mainpc # "complete" /\ main_exc = [type |-> "ValueError"]
       /\ (pc[MainCaller] = "raised" /\ mainpc # "complete") =>
            main_exc = error[MainCaller]

C13_Witness ==
    /\ mainpc = "failed"
    /\ pc[MainCaller] = "raised"
    /\ logged = << error[MainCaller] >>

-----------------------------------------------------------------------------
(* Further claims about complete, checked under Spec.                       *)

LastAttempt(c) == attempts[c][Len(attempts[c])]

\* C14: a call that has returned returns the decoded JSON body of the
\* response of its last, successful attempt, as it is; every earlier
\* attempt failed and its body is not what is returned.
C14_ReturnsDecodedBodyAsIs ==
    \A c \in Callers :
        pc[c] = "returned" =>
            /\ ~LastAttempt(c).raised
            /\ result[c].none = FALSE
            /\ LastAttempt(c).outcome.text = TextAnswer =>
                 result[c].body =
                   [choices |-> << [message |-> [content |-> "42"]] >>]
            /\ LastAttempt(c).outcome.text = TextError =>
                 result[c].body = [error |-> "overloaded"]
            /\ LastAttempt(c).outcome.text \in {TextAnswer, TextError}
            /\ \A i \in 1..(Len(attempts[c]) - 1) : attempts[c][i].raised

C14_Witness ==
    \E c \in Callers :
        /\ pc[c] = "returned"
        /\ Len(attempts[c]) = 2
        /\ attempts[c][1].outcome.status_code = 500
        /\ attempts[c][1].outcome.text = TextError
        /\ attempts[c][2].outcome.text = TextAnswer
        /\ result[c].body = json(TextAnswer)

\* C15: once the client is constructed its configuration (api_key,
\* api_endpoint, headers) never changes, whatever the calls do.
C15_ConfigurationNeverChanges ==
    [][constructed = "ok" =>
         /\ constructed' = "ok"
         /\ api_key' = api_key
         /\ api_endpoint' = api_endpoint
         /\ headers' = headers]_vars

C15_Witness ==
    /\ constructed = "ok"
    /\ headers = Headers(api_key)
    /\ \E c \in Callers :
         calls[c] = 2 /\ pc[c] = "raised" /\ Len(sent[c]) = 3

\* C18: a wait happens only between a failed attempt and the next one:
\* none before the 1st attempt, one before each of the 2nd and 3rd, none
\* after a successful attempt and none after the failed 3rd attempt.
C18_WaitsOnlyBetweenAttempts ==
    \A c \in Callers :
        attempt_number[c] >= 1 =>
            /\ Len(slept[c]) = attempt_number[c] - 1
            /\ Len(slept[c]) <= 2
            /\ \A i \in 1..Len(slept[c]) : attempts[c][i].raised
            /\ pc[c] = "sleep" =>
                 LastAttempt(c).raised /\ Len(attempts[c]) < 3
            /\ pc[c] = "returned" => Len(slept[c]) = Len(attempts[c]) - 1
            /\ pc[c] = "raised" =>
                 Len(slept[c]) = 2 /\ Len(attempts[c]) = 3

C18_Witness ==
    \E c \in Callers :
        pc[c] = "returned" /\ Len(attempts[c]) = 3 /\ Len(slept[c]) = 2

\* C19: an attempt answered 2xx with a body that does not decode as JSON
\* is a failed attempt: it raises, it is followed by a wait and a next
\* attempt unless it was the 3rd, after which the call raises; a call never
\* returns on it.
C19_UndecodableBodyIsRetried ==
    \A c \in Callers : \A i \in 1..Len(attempts[c]) :
        LET o == attempts[c][i].outcome
        IN  (/\ o.exc = None
             /\ o.status_code \in 200..299
             /\ ~json_decodes(o.text))
            => /\ attempts[c][i].raised
               /\ attempts[c][i].exception.type = "JSONDecodeError"
               /\ i <= 3
               /\ i = Len(attempts[c]) =>
                    IF i = 3 THEN pc[c] = "raised"
                    ELSE \/ pc[c] = "sleep" /\ attempt_number[c] = i
                         \/ /\ pc[c] \in {"attempt", "inflight"}
                            /\ attempt_number[c] = i + 1

C19_Witness ==
    \E c \in Callers :
        /\ Len(attempts[c]) = 3
        /\ \A i \in 1..3 :
             /\ attempts[c][i].outcome.status_code = 200
             /\ attempts[c][i].outcome.text = TextHtml
        /\ pc[c] = "raised"

-----------------------------------------------------------------------------
(* Concurrent calls, checked under ConcSpec.                                *)

\* All that belongs to the call of caller c.
CallState(c) ==
    <<pc[c], calls[c], prompt[c], attempt_number[c], upcoming_sleep[c],
      sent[c], slept[c], attempts[c], result[c], error[c]>>

\* The attempts of c's call alone decide where the call is.
OwnRetryLoop(c) ==
    /\ Len(attempts[c]) <= 3
    /\ Len(sent[c]) <= 3
    /\ pc[c] # "idle" =>
         attempt_number[c] =
           Len(sent[c]) + (IF pc[c] = "attempt" THEN 1 ELSE 0)
    /\ pc[c] = "returned" <=>
         (Len(attempts[c]) >= 1 /\ ~LastAttempt(c).raised)
    /\ pc[c] = "raised" <=> AllThreeFailed(c)
    /\ pc[c] = "sleep" <=>
         (/\ Len(attempts[c]) \in 1..2
          /\ LastAttempt(c).raised
          /\ Len(slept[c]) < Len(attempts[c]))

\* C16: with two calls running concurrently on one client, in every
\* interleaving each call has its own retry loop: it makes at most 3
\* attempts, its attempt count follows its own requests, its outcome follows
\* from its own attempts, and no step of one call changes anything of the
\* other call.
C16_ConcurrentCallsIndependent ==
    /\ [](\A c \in Callers : OwnRetryLoop(c))
    /\ [][\A c, d \in Callers :
            (c # d /\ CallState(c)' # CallState(c)) =>
                CallState(d)' = CallState(d)]_vars

C16_Witness ==
    /\ pc[1] = "inflight" /\ attempt_number[1] = 3
    /\ pc[2] = "sleep" /\ attempt_number[2] = 1
    /\ OwnRetryLoop(1) /\ OwnRetryLoop(2)

-----------------------------------------------------------------------------
(* Termination, checked under LiveSpec.                                     *)

Attempting(c) == pc[c] \in {"attempt", "inflight", "sleep"}

\* C17: a call that is attempting eventually ends, in exactly one of
\* succeeded (a value, no error) and failed (an error, no value); once it
\* has ended, nothing of the call changes until the caller calls again: no
\* further attempt, no further wait.
C17_CallTerminates ==
    /\ \A c \in Callers : Attempting(c) ~> Finished(c)
    /\ [](\A c \in Callers :
            Finished(c) =>
                \/ pc[c] = "returned" /\ result[c] # NoValue
                                      /\ error[c] = NoError
                \/ pc[c] = "raised" /\ result[c] = NoValue
                                    /\ error[c] # NoError)
    /\ [][\A c \in Callers :
            (Finished(c) /\ calls'[c] = calls[c]) =>
                CallState(c)' = CallState(c)]_vars

C17_Witness ==
    \E c \in Callers :
        /\ pc[c] = "returned"
        /\ calls[c] = 1
        /\ Len(attempts[c]) = 2
        /\ Len(slept[c]) = 1
        /\ error[c] = NoError

====
